---- MODULE Spec2Model ----
(***************************************************************************)
(* Model of resnet.py: the construction of a ResNet layer graph by         *)
(* ResnetFactory.get_original and the named factories built on it.         *)
(*                                                                         *)
(* A layer is a record; the tensor a layer outputs is identified with the  *)
(* layer's position in `layers` (creation order).  Every layer carries the *)
(* source line of the constructor call that created it and the name of the *)
(* variable it was bound to.  Shapes are <<height, width, channels>> (the  *)
(* batch dimension of K.int_shape is left out, so residual_shape[3] is the *)
(* channel count here as well).                                            *)
(***************************************************************************)
EXTENDS Integers, Sequences, FiniteSets, TLC

VARIABLES factory, input_shape, num_classes, residual_unit_cls,
          units_per_block, layers, pc, i, filters, blk, block_i, current,
          x, residual, first_conv_strides

vars == <<factory, input_shape, num_classes, residual_unit_cls,
          units_per_block, layers, pc, i, filters, blk, block_i, current,
          x, residual, first_conv_strides>>

inputs == <<factory, input_shape, num_classes, residual_unit_cls,
            units_per_block>>

(* ---------------- bounds of the explored inputs ---------------- *)
MaxBlocks == 4
MaxUnits == 2

InputShapes == {<<224, 224, 3>>, <<193, 225, 1>>, <<33, 64, 3>>, <<1, 1, 1>>}
NumClasses == {2, 1000}
UnitClasses == {"ResidualUnit", "BottleneckResidualUnit"}
Factories == {"get_original", "get_original_18", "get_original_34",
              "get_original_50", "get_original_101", "get_original_152"}
\* units_per_block of a direct get_original call: at least one block, at
\* least one unit in every block
UnitsPerBlockChoices == UNION {[1..n -> 1..MaxUnits] : n \in 1..MaxBlocks}

(* ---------------- the named factories ---------------- *)
FactoryUnitsMut(f) ==
    CASE f = "get_original_18"  -> <<2, 2, 2, 2>>
      [] f = "get_original_34"  -> <<3, 4, 6, 3>>
      [] f = "get_original_50"  -> <<3, 4, 6, 3>>
      [] f = "get_original_101" -> <<3, 4, 6, 3>>
      [] f = "get_original_152" -> <<3, 8, 36, 3>>

FactoryUnits(f) ==
    CASE f = "get_original_18"  -> <<2, 2, 2, 2>>
      [] f = "get_original_34"  -> <<3, 4, 6, 3>>
      [] f = "get_original_50"  -> <<3, 4, 6, 3>>
      [] f = "get_original_101" -> <<3, 4, 23, 3>>
      [] f = "get_original_152" -> <<3, 8, 36, 3>>

FactoryCls(f) ==
    IF f \in {"get_original_18", "get_original_34"}
    THEN "ResidualUnit" ELSE "BottleneckResidualUnit"

(* ---------------- shape arithmetic of the framework ---------------- *)
CeilDiv(n, s) == (n + s - 1) \div s

\* padding='same': a stride-s window maps a spatial size n to ceil(n/s)
SameShape(shape, channels, strides) ==
    <<CeilDiv(shape[1], strides[1]), CeilDiv(shape[2], strides[2]), channels>>

\* padding='valid' (the default of AveragePooling2D)
ValidShape(shape, pool_size, strides) ==
    <<CeilDiv(shape[1] - pool_size[1] + 1, strides[1]),
      CeilDiv(shape[2] - pool_size[2] + 1, strides[2]), shape[3]>>

ValidFits(shape, pool_size) ==
    shape[1] >= pool_size[1] /\ shape[2] >= pool_size[2]

(* ---------------- layer constructors ---------------- *)
Layer(kind, name, line, f, k, s, pad, act, ins, shape, b, u) ==
    [kind |-> kind, name |-> name, line |-> line, filters |-> f,
     kernel_size |-> k, strides |-> s, padding |-> pad, activation |-> act,
     inputs |-> ins, shape |-> shape, block |-> b, unit |-> u]

Conv2D(name, line, f, k, s, in, in_shape, b, u) ==
    Layer("Conv2D", name, line, f, k, s, "same", "linear", <<in>>,
          SameShape(in_shape, f, s), b, u)

BatchNormalization(name, line, in, in_shape, b, u) ==
    Layer("BatchNormalization", name, line, 0, <<0, 0>>, <<0, 0>>, "none",
          "none", <<in>>, in_shape, b, u)

Activation(name, line, in, in_shape, b, u) ==
    Layer("Activation", name, line, 0, <<0, 0>>, <<0, 0>>, "none", "relu",
          <<in>>, in_shape, b, u)

Add(name, line, ins, out_shape, b, u) ==
    Layer("Add", name, line, 0, <<0, 0>>, <<0, 0>>, "none", "none", ins,
          out_shape, b, u)

MaxPooling2D(name, line, pool_size, s, in, in_shape) ==
    Layer("MaxPooling2D", name, line, 0, pool_size, s, "same", "none",
          <<in>>, SameShape(in_shape, in_shape[3], s), -1, -1)

AveragePooling2D(name, line, pool_size, s, in, in_shape) ==
    Layer("AveragePooling2D", name, line, 0, pool_size, s, "valid", "none",
          <<in>>, ValidShape(in_shape, pool_size, s), -1, -1)

Flatten(name, line, in, in_shape) ==
    Layer("Flatten", name, line, 0, <<0, 0>>, <<0, 0>>, "none", "none",
          <<in>>, <<in_shape[1] * in_shape[2] * in_shape[3]>>, -1, -1)

\* the `filters` field of a Dense layer holds its `units`
Dense(name, line, units, act, in) ==
    Layer("Dense", name, line, units, <<0, 0>>, <<0, 0>>, "none", act,
          <<in>>, <<units>>, -1, -1)

Shape(t) == layers[t].shape

(* ---------------- ResidualUnit.__call__, main path ---------------- *)
\* `base` is the number of layers created so far; the result is the list of
\* the layers conv1, norm1, relu1, conv2, norm2 (norm2 is the residual).
ResidualUnitCallMut(in, in_shape, f, strides, base, b, u) ==
    LET conv1 == Conv2D("conv1", 26, f, <<3, 3>>, strides, in, in_shape, b, u)
        norm1 == BatchNormalization("norm1", 29, base + 1, conv1.shape, b, u)
        relu1 == Activation("relu1", 30, base + 2, norm1.shape, b, u)
        conv2 == Conv2D("conv2", 31, f, <<3, 3>>, <<1, 1>>, base + 3,
                        relu1.shape, b, u)
    IN  <<conv1, norm1, relu1, conv2>>

ResidualUnitCall(in, in_shape, f, strides, base, b, u) ==
    LET conv1 == Conv2D("conv1", 26, f, <<3, 3>>, strides, in, in_shape, b, u)
        norm1 == BatchNormalization("norm1", 29, base + 1, conv1.shape, b, u)
        relu1 == Activation("relu1", 30, base + 2, norm1.shape, b, u)
        conv2 == Conv2D("conv2", 31, f, <<3, 3>>, <<1, 1>>, base + 3,
                        relu1.shape, b, u)
        norm2 == BatchNormalization("norm2", 34, base + 4, conv2.shape, b, u)
    IN  <<conv1, norm1, relu1, conv2, norm2>>

(* ------------- BottleneckResidualUnit.__call__, main path ------------- *)
\* conv1 .. norm3 (norm3 is the residual)
BottleneckResidualUnitCallMut(in, in_shape, f, strides, base, b, u) ==
    LET conv1 == Conv2D("conv1", 55, f, <<1, 1>>, strides, in, in_shape, b, u)
        norm1 == BatchNormalization("norm1", 58, base + 1, conv1.shape, b, u)
        relu1 == Activation("relu1", 59, base + 2, norm1.shape, b, u)
        conv2 == Conv2D("conv2", 60, f, <<3, 3>>, <<1, 1>>, base + 3,
                        relu1.shape, b, u)
        norm2 == BatchNormalization("norm2", 63, base + 4, conv2.shape, b, u)
        relu2 == Activation("relu2", 64, base + 5, norm2.shape, b, u)
        conv3 == Conv2D("conv3", 65, f, <<3, 3>>, <<1, 1>>, base + 6,
                        relu2.shape, b, u)
        norm3 == BatchNormalization("norm3", 68, base + 7, conv3.shape, b, u)
    IN  <<conv1, norm1, relu1, conv2, norm2, relu2, conv3, norm3>>

BottleneckResidualUnitCall(in, in_shape, f, strides, base, b, u) ==
    LET conv1 == Conv2D("conv1", 55, f, <<1, 1>>, strides, in, in_shape, b, u)
        norm1 == BatchNormalization("norm1", 58, base + 1, conv1.shape, b, u)
        relu1 == Activation("relu1", 59, base + 2, norm1.shape, b, u)
        conv2 == Conv2D("conv2", 60, f, <<3, 3>>, <<1, 1>>, base + 3,
                        relu1.shape, b, u)
        norm2 == BatchNormalization("norm2", 63, base + 4, conv2.shape, b, u)
        relu2 == Activation("relu2", 64, base + 5, norm2.shape, b, u)
        conv3 == Conv2D("conv3", 65, f * 4, <<3, 3>>, <<1, 1>>, base + 6,
                        relu2.shape, b, u)
        norm3 == BatchNormalization("norm3", 68, base + 7, conv3.shape, b, u)
    IN  <<conv1, norm1, relu1, conv2, norm2, relu2, conv3, norm3>>

(* ---------------- ResidualUnit.shortcut_and_add ---------------- *)
\* the test `x_shape != residual_shape`
NeedsProjectionMut(x_shape, residual_shape) ==
    <<x_shape[1], x_shape[2]>> # <<residual_shape[1], residual_shape[2]>>

NeedsProjection(x_shape, residual_shape) == x_shape # residual_shape

\* The layers shortcut_and_add creates, the add last.  The output shape of
\* add is the shape of its second operand; the framework rejects operands
\* whose shapes do not agree.
ShortcutAndAddMut(in, x_shape, res, residual_shape, strides, base, b, u) ==
    IF NeedsProjection(x_shape, residual_shape)
    THEN LET conv1 == Conv2D("conv1", 42, residual_shape[3], <<1, 1>>,
                             <<1, 1>>, in, x_shape, b, u)
             shortcut == BatchNormalization("shortcut", 45, base + 1,
                                            conv1.shape, b, u)
         IN  <<conv1, shortcut,
               Add("add", 46, <<base + 2, res>>, residual_shape, b, u)>>
    ELSE <<Add("add", 46, <<in, res>>, residual_shape, b, u)>>

ShortcutAndAdd(in, x_shape, res, residual_shape, strides, base, b, u) ==
    IF NeedsProjection(x_shape, residual_shape)
    THEN LET conv1 == Conv2D("conv1", 42, residual_shape[3], <<1, 1>>,
                             strides, in, x_shape, b, u)
             shortcut == BatchNormalization("shortcut", 45, base + 1,
                                            conv1.shape, b, u)
         IN  <<conv1, shortcut,
               Add("add", 46, <<base + 2, res>>, residual_shape, b, u)>>
    ELSE <<Add("add", 46, <<in, res>>, residual_shape, b, u)>>

\* line of the `return Activation('relu')(...)` of the unit class
ReturnLine(cls) == IF cls = "ResidualUnit" THEN 35 ELSE 69

(* ---------------- ResidualBlock.__call__ ---------------- *)
BlockStridesMut(is_first_block, bi) ==
    IF bi = 0 THEN <<2, 2>> ELSE <<1, 1>>

BlockStrides(is_first_block, bi) ==
    IF ~is_first_block /\ bi = 0 THEN <<2, 2>> ELSE <<1, 1>>

(* ---------------- ResnetFactory.get_original ---------------- *)
StemLayersMut(shape) ==
    LET in0   == Layer("Input", "x", 104, 0, <<0, 0>>, <<0, 0>>, "none",
                       "none", <<>>, shape, -1, -1)
        conv1 == Conv2D("conv1", 105, 64, <<7, 7>>, <<2, 2>>, 1, shape, -1, -1)
        norm1 == BatchNormalization("norm1", 108, 2, conv1.shape, -1, -1)
        relu1 == Activation("relu1", 109, 3, norm1.shape, -1, -1)
        pool  == MaxPooling2D("current", 110, <<3, 3>>, <<1, 1>>, 4,
                              relu1.shape)
    IN  <<in0, conv1, norm1, relu1, pool>>

StemLayers(shape) ==
    LET in0   == Layer("Input", "x", 104, 0, <<0, 0>>, <<0, 0>>, "none",
                       "none", <<>>, shape, -1, -1)
        conv1 == Conv2D("conv1", 105, 64, <<7, 7>>, <<2, 2>>, 1, shape, -1, -1)
        norm1 == BatchNormalization("norm1", 108, 2, conv1.shape, -1, -1)
        relu1 == Activation("relu1", 109, 3, norm1.shape, -1, -1)
        pool  == MaxPooling2D("current", 110, <<3, 3>>, <<2, 2>>, 4,
                              relu1.shape)
    IN  <<in0, conv1, norm1, relu1, pool>>

NextFiltersMut(f) == f + 64

NextFilters(f) == f * 2

\* avg_pool, flatten1, dense on top of the head's relu1 (layer `in`)
HeadLayersMut(in, in_shape, classes, base) ==
    LET flatten1 == Flatten("flatten1", 117, in, in_shape)
        dense    == Dense("dense", 118, classes, "softmax", base + 1)
    IN  <<flatten1, dense>>

HeadLayers(in, in_shape, classes, base) ==
    LET avg_pool == AveragePooling2D("avg_pool", 116, <<7, 7>>, <<1, 1>>,
                                     in, in_shape)
        flatten1 == Flatten("flatten1", 117, base + 1, avg_pool.shape)
        dense    == Dense("dense", 118, classes, "softmax", base + 2)
    IN  <<avg_pool, flatten1, dense>>

Init ==
    /\ factory \in Factories
    /\ input_shape \in InputShapes
    /\ num_classes \in NumClasses
    /\ residual_unit_cls \in
         IF factory = "get_original" THEN UnitClasses
                                     ELSE {FactoryCls(factory)}
    /\ units_per_block \in
         IF factory = "get_original" THEN UnitsPerBlockChoices
                                     ELSE {FactoryUnits(factory)}
    /\ layers = <<>>
    /\ pc = "start"
    /\ i = 0
    /\ filters = 0
    /\ blk = [units |-> 0, filters |-> 0, residual_unit_cls |-> "none",
              is_first_block |-> FALSE]
    /\ block_i = 0
    /\ current = 0
    /\ x = 0
    /\ residual = 0
    /\ first_conv_strides = <<0, 0>>

\* lines 104-111: input, stem convolution, normalization, activation, pooling
Stem ==
    /\ pc = "start"
    /\ layers' = StemLayers(input_shape)
    /\ current' = Len(layers')
    /\ filters' = 64
    /\ i' = 0
    /\ pc' = "block_loop"
    /\ UNCHANGED <<inputs, blk, block_i, x, residual, first_conv_strides>>

\* lines 112-113 and 73-80: the next ResidualBlock is constructed and called
BlockEnter ==
    /\ pc = "block_loop"
    /\ i < Len(units_per_block)
    /\ blk' = [units |-> units_per_block[i + 1], filters |-> filters,
               residual_unit_cls |-> residual_unit_cls,
               is_first_block |-> (i = 0)]
    /\ block_i' = 0
    /\ pc' = "unit_loop"
    /\ UNCHANGED <<inputs, layers, i, filters, current, x, residual,
                   first_conv_strides>>

\* lines 81-86 and the main path of the unit's __call__ (25-34 or 54-68)
UnitMainPath(cls) ==
    /\ pc = "unit_loop"
    /\ block_i < blk.units
    /\ blk.residual_unit_cls = cls
    /\ LET strides == BlockStrides(blk.is_first_block, block_i)
           main == IF cls = "ResidualUnit"
                   THEN ResidualUnitCall(current, Shape(current), blk.filters,
                                         strides, Len(layers), i, block_i)
                   ELSE BottleneckResidualUnitCall(current, Shape(current),
                                         blk.filters, strides, Len(layers),
                                         i, block_i)
       IN  /\ layers' = layers \o main
           /\ first_conv_strides' = strides
    /\ x' = current
    /\ residual' = Len(layers')
    /\ pc' = "shortcut_and_add"
    /\ UNCHANGED <<inputs, i, filters, blk, block_i, current>>

ResidualUnitMainPath == UnitMainPath("ResidualUnit")

BottleneckMainPath == UnitMainPath("BottleneckResidualUnit")

\* lines 37-46, the final Activation of the unit (35 or 69) and the
\* assignment to `current` of line 85
UnitShortcutAndReturn ==
    /\ pc = "shortcut_and_add"
    /\ LET merged == ShortcutAndAdd(x, Shape(x), residual, Shape(residual),
                                    first_conv_strides, Len(layers), i,
                                    block_i)
           n == Len(layers) + Len(merged)
       IN  layers' = layers \o merged \o
             <<Activation("return", ReturnLine(blk.residual_unit_cls), n,
                          merged[Len(merged)].shape, i, block_i)>>
    /\ current' = Len(layers')
    /\ block_i' = block_i + 1
    /\ pc' = "unit_loop"
    /\ UNCHANGED <<inputs, i, filters, blk, x, residual, first_conv_strides>>

\* lines 81, 87 and 114: the block's loop ends, the block returns
BlockExit ==
    /\ pc = "unit_loop"
    /\ block_i = blk.units
    /\ filters' = NextFilters(filters)
    /\ i' = i + 1
    /\ pc' = "block_loop"
    /\ UNCHANGED <<inputs, layers, blk, block_i, current, x, residual,
                   first_conv_strides>>

\* line 115
HeadActivation ==
    /\ pc = "block_loop"
    /\ i = Len(units_per_block)
    /\ layers' = Append(layers, Activation("relu1", 115, current,
                                           Shape(current), -1, -1))
    /\ pc' = "head"
    /\ UNCHANGED <<inputs, i, filters, blk, block_i, current, x, residual,
                   first_conv_strides>>

\* lines 116-119
HeadClassify ==
    /\ pc = "head"
    /\ ValidFits(Shape(Len(layers)), <<7, 7>>)
    /\ layers' = layers \o HeadLayers(Len(layers), Shape(Len(layers)),
                                      num_classes, Len(layers))
    /\ pc' = "done"
    /\ UNCHANGED <<inputs, i, filters, blk, block_i, current, x, residual,
                   first_conv_strides>>

\* line 116 on a feature map smaller than the 7x7 window: the framework
\* raises and no model is returned
HeadPoolFails ==
    /\ pc = "head"
    /\ ~ValidFits(Shape(Len(layers)), <<7, 7>>)
    /\ pc' = "failed"
    /\ UNCHANGED <<inputs, layers, i, filters, blk, block_i, current, x,
                   residual, first_conv_strides>>

Next ==
    \/ Stem
    \/ BlockEnter
    \/ ResidualUnitMainPath
    \/ BottleneckMainPath
    \/ UnitShortcutAndReturn
    \/ BlockExit
    \/ HeadActivation
    \/ HeadClassify
    \/ HeadPoolFails

Spec == Init /\ [][Next]_vars

(* ======================= properties ======================= *)
Ids == DOMAIN layers

\* 0: stem (lines 104-110), 1: residual units (lines 25-69),
\* 2: head (lines 115-118)
Phase(l) ==
    IF l.line \in 104..110 THEN 0 ELSE IF l.line \in 115..118 THEN 2 ELSE 1

IsProjectionConv(l) == l.kind = "Conv2D" /\ l.line = 42
IsMainConv(l) == l.kind = "Conv2D" /\ Phase(l) = 1 /\ l.line # 42
IsUnitConv1(l) == l.kind = "Conv2D" /\ l.line \in {26, 55}
IsUnitReturn(l) == l.kind = "Activation" /\ l.line \in {35, 69}
IsWeighted(l) ==
    \/ l.kind = "Dense"
    \/ l.kind = "Conv2D" /\ ~IsProjectionConv(l)

WeightedLayers == Cardinality({k \in Ids : IsWeighted(layers[k])})
ProjectionShortcuts == Cardinality({k \in Ids : IsProjectionConv(layers[k])})
UnitsCreated(b) ==
    Cardinality({k \in Ids : layers[k].kind = "Add" /\ layers[k].block = b})
MainConvsOf(b, u) ==
    Cardinality({k \in Ids : IsMainConv(layers[k]) /\ layers[k].block = b
                             /\ layers[k].unit = u})

\* a unit has just returned: its layers are x+1 .. Len(layers), `residual`
\* is the last layer of its main path
AfterUnit == pc = "unit_loop" /\ block_i > 0

Built == pc = "done"
BlocksDone == pc \in {"head", "done", "failed"}

(* ---------------------------------------------------------------------- *)
\* C1: the network built by get_original_N (N = 18, 34, 50, 101, 152) has
\* exactly N weighted layers (stem convolution, main-path convolutions of
\* the units, final dense layer; projection convolutions not counted), with
\* units per block [2,2,2,2], [3,4,6,3], [3,4,6,3], [3,4,23,3], [3,8,36,3]
\* and two main-path convolutions per ResidualUnit, three per
\* BottleneckResidualUnit.
AnnouncedDepth(f) ==
    CASE f = "get_original_18"  -> 18
      [] f = "get_original_34"  -> 34
      [] f = "get_original_50"  -> 50
      [] f = "get_original_101" -> 101
      [] f = "get_original_152" -> 152

AnnouncedUnits(f) ==
    CASE f = "get_original_18"  -> <<2, 2, 2, 2>>
      [] f = "get_original_34"  -> <<3, 4, 6, 3>>
      [] f = "get_original_50"  -> <<3, 4, 6, 3>>
      [] f = "get_original_101" -> <<3, 4, 23, 3>>
      [] f = "get_original_152" -> <<3, 8, 36, 3>>

C1_NamedFactoryDepth ==
    (Built /\ factory # "get_original") =>
        /\ WeightedLayers = AnnouncedDepth(factory)
        /\ units_per_block = AnnouncedUnits(factory)
        /\ residual_unit_cls =
             (IF factory \in {"get_original_18", "get_original_34"}
              THEN "ResidualUnit" ELSE "BottleneckResidualUnit")
        /\ \A b \in 0..3 : UnitsCreated(b) = AnnouncedUnits(factory)[b + 1]
        /\ \A k \in Ids : IsUnitConv1(layers[k]) =>
             MainConvsOf(layers[k].block, layers[k].unit) =
               (IF residual_unit_cls = "ResidualUnit" THEN 2 ELSE 3)

C1_Witness ==
    /\ Built
    /\ factory = "get_original_101"
    /\ WeightedLayers = 101
    /\ UnitsCreated(2) = 23

(* ---------------------------------------------------------------------- *)
\* C2: a ResidualBlock with N units creates exactly N units chained in
\* sequence; the first convolution of unit u of block b has stride (2,2)
\* iff u = 0 and b is not the initial block, stride (1,1) otherwise; a
\* block is the initial block iff it is at index 0 of units_per_block.
C2_BlockUnitsAndStrides ==
    /\ \A b \in 0..(Len(units_per_block) - 1) :
         UnitsCreated(b) =
           (IF b < i THEN units_per_block[b + 1]
            ELSE IF b = i /\ pc \in {"unit_loop", "shortcut_and_add"}
                 THEN block_i ELSE 0)
    /\ pc \in {"unit_loop", "shortcut_and_add"} =>
         /\ blk.is_first_block = (i = 0)
         /\ blk.units = units_per_block[i + 1]
    /\ \A k \in Ids : IsUnitConv1(layers[k]) =>
         LET l == layers[k] IN
         /\ l.strides = (IF l.unit = 0 /\ l.block # 0 THEN <<2, 2>>
                                                      ELSE <<1, 1>>)
         /\ l.unit > 0 =>
              LET prev == layers[l.inputs[1]] IN
              /\ IsUnitReturn(prev)
              /\ prev.block = l.block
              /\ prev.unit = l.unit - 1

C2_Witness ==
    /\ Built
    /\ Len(units_per_block) = 3
    /\ units_per_block[2] = 2
    /\ UnitsCreated(1) = 2
    /\ \E k \in Ids : /\ IsUnitConv1(layers[k])
                      /\ layers[k].block = 1 /\ layers[k].unit = 0
                      /\ layers[k].strides = <<2, 2>>
    /\ \E k \in Ids : /\ IsUnitConv1(layers[k])
                      /\ layers[k].block = 0 /\ layers[k].unit = 0
                      /\ layers[k].strides = <<1, 1>>

(* ---------------------------------------------------------------------- *)
\* C3: in shortcut_and_add the shortcut is x itself, with no layer added,
\* when the shape of x equals the shape of the residual; exactly when the
\* shapes differ it is a 1x1 convolution of x with residual_shape[3]
\* filters and the unit's first_conv_strides followed by batch
\* normalization; in both cases add([shortcut, residual]) follows.
C3_ShortcutIdentityOrProjection ==
    AfterUnit =>
      LET n == Len(layers)
          merge == layers[n - 1]
      IN  /\ merge.kind = "Add"
          /\ merge.inputs[2] = residual
          /\ first_conv_strides = layers[x + 1].strides
          /\ IF Shape(x) = Shape(residual)
             THEN /\ n - 1 = residual + 1
                  /\ merge.inputs[1] = x
             ELSE /\ n - 1 = residual + 3
                  /\ layers[residual + 1].kind = "Conv2D"
                  /\ layers[residual + 1].kernel_size = <<1, 1>>
                  /\ layers[residual + 1].filters = Shape(residual)[3]
                  /\ layers[residual + 1].strides = first_conv_strides
                  /\ layers[residual + 1].inputs = <<x>>
                  /\ layers[residual + 2].kind = "BatchNormalization"
                  /\ layers[residual + 2].inputs = <<residual + 1>>
                  /\ merge.inputs[1] = residual + 2

C3_Witness ==
    /\ AfterUnit
    /\ Shape(x) # Shape(residual)
    /\ Shape(x)[1] = Shape(residual)[1]
    /\ layers[residual + 1].kind = "Conv2D"
    /\ layers[residual + 1].filters = 256

(* ---------------------------------------------------------------------- *)
\* C4: a BottleneckResidualUnit builds exactly three main-path convolutions
\* with kernel sizes 1x1, 3x3, 1x1 in this order, filter counts filters,
\* filters, 4*filters, the first with first_conv_strides and the other two
\* with stride (1,1).
C4_BottleneckConvolutions ==
    (AfterUnit /\ blk.residual_unit_cls = "BottleneckResidualUnit") =>
      /\ MainConvsOf(i, block_i - 1) = 3
      /\ layers[x + 1].kind = "Conv2D"
      /\ layers[x + 4].kind = "Conv2D"
      /\ layers[x + 7].kind = "Conv2D"
      /\ layers[x + 1].kernel_size = <<1, 1>>
      /\ layers[x + 4].kernel_size = <<3, 3>>
      /\ layers[x + 7].kernel_size = <<1, 1>>
      /\ layers[x + 1].filters = blk.filters
      /\ layers[x + 4].filters = blk.filters
      /\ layers[x + 7].filters = 4 * blk.filters
      /\ layers[x + 1].strides = first_conv_strides
      /\ layers[x + 4].strides = <<1, 1>>
      /\ layers[x + 7].strides = <<1, 1>>

(* ---------------------------------------------------------------------- *)
\* C5: the layers built by get_original are, in creation order: the stem
\* (input, convolution, normalization, activation, max pooling), then the
\* residual blocks in the order of units_per_block, each fed the output of
\* the previous one (the first by the stem's pooling), then the head
\* (activation, average pooling, flatten, dense softmax with num_classes
\* units) on the output of the last block; no head layer exists before the
\* last block is complete, no unit layer before the stem's pooling.
KindsOf(from, to) == [k \in 1..(to - from + 1) |-> layers[from + k - 1].kind]

C5_StemBlocksHeadOrder ==
    /\ pc # "start" =>
         /\ Len(layers) >= 5
         /\ KindsOf(1, 5) = <<"Input", "Conv2D", "BatchNormalization",
                              "Activation", "MaxPooling2D">>
         /\ \A k \in 2..5 : layers[k].inputs = <<k - 1>>
         /\ \A k \in 1..5 : Phase(layers[k]) = 0
    /\ \A k \in Ids : k > 5 => Phase(layers[k]) # 0
    /\ \A k \in Ids : k < Len(layers) =>
         /\ Phase(layers[k]) <= Phase(layers[k + 1])
         /\ (Phase(layers[k]) = 1 /\ Phase(layers[k + 1]) = 1) =>
              layers[k].block <= layers[k + 1].block
    /\ \A k \in Ids : Phase(layers[k]) = 1 =>
         layers[k].block \in 0..(Len(units_per_block) - 1)
    /\ \A k \in Ids : (IsUnitConv1(layers[k]) /\ layers[k].unit = 0) =>
         /\ layers[k].inputs = <<k - 1>>
         /\ IF layers[k].block = 0
            THEN layers[k - 1].kind = "MaxPooling2D"
            ELSE /\ IsUnitReturn(layers[k - 1])
                 /\ layers[k - 1].block = layers[k].block - 1
    /\ (\E k \in Ids : Phase(layers[k]) = 2) =>
         /\ BlocksDone
         /\ i = Len(units_per_block)
         /\ \A b \in 0..(Len(units_per_block) - 1) :
              UnitsCreated(b) = units_per_block[b + 1]
    /\ BlocksDone =>
         /\ layers[current + 1].kind = "Activation"
         /\ layers[current + 1].inputs = <<current>>
         /\ IsUnitReturn(layers[current])
         /\ layers[current].block = Len(units_per_block) - 1
    /\ Built =>
         LET n == Len(layers) IN
         /\ n = current + 4
         /\ KindsOf(n - 2, n) = <<"AveragePooling2D", "Flatten", "Dense">>
         /\ \A k \in (n - 2)..n : layers[k].inputs = <<k - 1>>
         /\ layers[n].filters = num_classes
         /\ layers[n].activation = "softmax"

C5_Witness ==
    /\ Built
    /\ Len(units_per_block) = 3
    /\ layers[Len(layers)].kind = "Dense"
    /\ layers[Len(layers)].filters = 1000
    /\ layers[Len(layers) - 3].line = 115
    /\ layers[Len(layers) - 4].block = 2

(* ---------------------------------------------------------------------- *)
\* C6: all units of one block are built with the same filter count, and
\* the block at index b of units_per_block is built with filters =
\* 64 * 2^b, whatever the numbers of units of the preceding blocks.
BlockFilters(b) == 64 * 2^b

C6_BlockFilters ==
    /\ pc \in {"unit_loop", "shortcut_and_add"} =>
         blk.filters = BlockFilters(i)
    /\ \A k \in Ids : IsMainConv(layers[k]) =>
         layers[k].filters =
           (IF layers[k].line = 65 THEN 4 * BlockFilters(layers[k].block)
                                   ELSE BlockFilters(layers[k].block))

C6_Witness ==
    /\ Built
    /\ Len(units_per_block) = 4
    /\ units_per_block[1] # units_per_block[2]
    /\ \E k \in Ids : /\ IsUnitConv1(layers[k])
                      /\ layers[k].block = 3 /\ layers[k].unit = 1
                      /\ layers[k].filters = 512

(* ---------------------------------------------------------------------- *)
\* C7: the main path of every unit is a sequence of convolution,
\* normalization, activation stages (two convolutions for ResidualUnit,
\* three for BottleneckResidualUnit) that ends with a normalization; the
\* unit performs exactly one add, after all its convolutions and
\* normalizations, and its output is the ReLU activation of that add.
C7_UnitStagesThenAddThenRelu ==
    AfterUnit =>
      LET n == Len(layers)
          stages == IF blk.residual_unit_cls = "ResidualUnit" THEN 2 ELSE 3
      IN  /\ residual = x + 3 * stages - 1
          /\ \A k \in (x + 1)..residual :
               /\ layers[k].kind =
                    (CASE (k - x) % 3 = 1 -> "Conv2D"
                       [] (k - x) % 3 = 2 -> "BatchNormalization"
                       [] (k - x) % 3 = 0 -> "Activation")
               /\ layers[k].inputs = <<k - 1>>
               /\ layers[k].kind = "Activation" =>
                    layers[k].activation = "relu"
          /\ Cardinality({k \in (x + 1)..n : layers[k].kind = "Add"}) = 1
          /\ layers[n - 1].kind = "Add"
          /\ \A k \in (x + 1)..n :
               layers[k].kind \in {"Conv2D", "BatchNormalization"} =>
                 k < n - 1
          /\ layers[n].kind = "Activation"
          /\ layers[n].activation = "relu"
          /\ layers[n].inputs = <<n - 1>>
          /\ current = n

C7_Witness ==
    /\ AfterUnit
    /\ blk.residual_unit_cls = "BottleneckResidualUnit"
    /\ residual = x + 8
    /\ Len(layers) = residual + 4
    /\ layers[Len(layers) - 1].kind = "Add"
    /\ layers[Len(layers)].kind = "Activation"

(* ---------------------------------------------------------------------- *)
\* C8: in every unit the two operands of add, shortcut and residual, have
\* the same shape (height, width, channels), for every input shape, every
\* units_per_block and both unit classes.
C8_AddOperandShapesAgree ==
    \A k \in Ids : layers[k].kind = "Add" =>
        /\ Len(layers[k].inputs) = 2
        /\ Shape(layers[k].inputs[1]) = Shape(layers[k].inputs[2])

C8_Witness ==
    /\ input_shape = <<193, 225, 1>>
    /\ AfterUnit /\ i = 1 /\ block_i = 1
    /\ first_conv_strides = <<2, 2>>
    /\ Shape(x) = <<49, 57, 64>>
    /\ LET merge == layers[Len(layers) - 1] IN
         /\ merge.kind = "Add"
         /\ Shape(merge.inputs[1]) = <<25, 29, 128>>
         /\ Shape(merge.inputs[2]) = <<25, 29, 128>>

(* ---------------------------------------------------------------------- *)
\* C9: every layer of block b has spatial size ceil(H/(4*2^b)) x
\* ceil(W/(4*2^b)); with four blocks the feature map entering the 7x7
\* average pooling is ceil(H/32) x ceil(W/32); for a 224 x 224 input it is
\* 7 x 7, the pooling yields 1 x 1 and the flattened vector has length 512
\* with ResidualUnit and 2048 with BottleneckResidualUnit.
C9_SpatialSizes ==
    /\ \A k \in Ids : Phase(layers[k]) = 1 =>
         /\ Shape(k)[1] = CeilDiv(input_shape[1], 4 * 2^(layers[k].block))
         /\ Shape(k)[2] = CeilDiv(input_shape[2], 4 * 2^(layers[k].block))
    /\ (BlocksDone /\ Len(units_per_block) = 4) =>
         /\ layers[current + 1].line = 115
         /\ Shape(current + 1)[1] = CeilDiv(input_shape[1], 32)
         /\ Shape(current + 1)[2] = CeilDiv(input_shape[2], 32)
    /\ (Built /\ Len(units_per_block) = 4 /\ input_shape[1] = 224
              /\ input_shape[2] = 224) =>
         /\ Shape(current + 1)[1] = 7 /\ Shape(current + 1)[2] = 7
         /\ layers[current + 2].kind = "AveragePooling2D"
         /\ Shape(current + 2)[1] = 1 /\ Shape(current + 2)[2] = 1
         /\ layers[current + 3].kind = "Flatten"
         /\ Shape(current + 3) =
              (IF residual_unit_cls = "ResidualUnit" THEN <<512>>
                                                     ELSE <<2048>>)

C9_Witness ==
    /\ Built
    /\ factory = "get_original_34"
    /\ input_shape = <<224, 224, 3>>
    /\ Shape(current + 1) = <<7, 7, 512>>
    /\ Shape(current + 3) = <<512>>

(* ---------------------------------------------------------------------- *)
\* C10: a unit uses a projection shortcut iff it is the first unit of its
\* block and, with ResidualUnit, the block is not the initial block; the
\* number of projection shortcuts of a network is (number of blocks - 1)
\* with ResidualUnit and (number of blocks) with BottleneckResidualUnit,
\* whatever the input spatial size.
C10_ProjectionOnlyInFirstUnits ==
    /\ AfterUnit =>
         (IsProjectionConv(layers[residual + 1])
            <=> /\ block_i - 1 = 0
                /\ (residual_unit_cls = "BottleneckResidualUnit" \/ i # 0))
    /\ \A k \in Ids : IsProjectionConv(layers[k]) =>
         /\ layers[k].unit = 0
         /\ (residual_unit_cls = "ResidualUnit" => layers[k].block # 0)
    /\ BlocksDone =>
         ProjectionShortcuts =
           (IF residual_unit_cls = "ResidualUnit"
            THEN Len(units_per_block) - 1 ELSE Len(units_per_block))

C10_Witness ==
    /\ pc = "failed"
    /\ input_shape = <<1, 1, 1>>
    /\ residual_unit_cls = "ResidualUnit"
    /\ units_per_block = <<2, 1, 2>>
    /\ ProjectionShortcuts = 2
====
